---- MODULE Spec2Model ----
(***************************************************************************)
(* Model of doc_gen.py: the PostgreSQL inventory collector.                *)
(*                                                                         *)
(*   connect_and_fetch  one scan of one server, as a per-task state machine *)
(*   generate_doc       the fan-out (thread pool + as_completed, or the     *)
(*                      sequential loop) and the merge into all_metadata    *)
(*   save_results       the JSONL and Markdown writers                      *)
(*                                                                         *)
(* The database servers are the environment: their catalogs, whether they  *)
(* answer, which tables a query is refused on, and which extensions are    *)
(* installed.  The environment may change while the program runs.          *)
(*                                                                         *)
(* A string built from parts (an f-string, a join) is the sequence of its  *)
(* parts; a file is the sequence of the chunks written to it.              *)
(***************************************************************************)
EXTENDS Integers, Sequences, FiniteSets, TLC

\* ------------------------------------------------------------------ bounds
MaxServers == 2
MaxRuns == 2
MaxEnvChanges == 1

\* ------------------------------------------------------------ small helpers
None == "None"

RECURSIVE Flatten(_)
Flatten(ss) == IF ss = <<>> THEN <<>> ELSE Head(ss) \o Flatten(Tail(ss))

Range(s) == {s[i] : i \in 1..Len(s)}

Count(s, x) == Cardinality({i \in 1..Len(s) : s[i] = x})

SameBag(a, b) ==
    /\ Len(a) = Len(b)
    /\ \A x \in Range(a) \cup Range(b) : Count(a, x) = Count(b, x)

SeqsUpTo(S, n) == UNION {[1..k -> S] : k \in 0..n}

\* ------------------------------------------------------------ configuration
\* ServerConfig(host, port, username, password)
S1 == [host |-> "h1", port |-> 5432, username |-> "postgres", password |-> "pw"]
S2 == [host |-> "h2", port |-> 5432, username |-> "postgres", password |-> "pw"]
ServerConfigs == {S1, S2}
Hosts == {c.host : c \in ServerConfigs}

\* f"{server.host}:{server.port}"
ServerName(server) == <<server.host, ":", ToString(server.port)>>

\* -------------------------------------------------- the servers' catalogs
Col(name, type, nullable, default) ==
    [column_name |-> name, data_type |-> type, is_nullable |-> nullable,
     column_default |-> default]

\* pkname/pk: the table's PRIMARY KEY constraint (None when it has none)
Tbl(schema, name, reltuples, cols, pkname, pk, idx, fk) ==
    [table_schema |-> schema, table_name |-> name, reltuples |-> reltuples,
     columns |-> cols, pkname |-> pkname, pk |-> pk, indexdefs |-> idx, fks |-> fk]

Db(name, template, tables) ==
    [datname |-> name, datistemplate |-> template, tables |-> tables]

UsersTbl ==
    Tbl("public", "users", 42,
        <<Col("id", "integer", "NO", None), Col("name", "text", "YES", None)>>,
        "users_pkey", <<"id">>,
        <<"CREATE UNIQUE INDEX users_pkey ON public.users USING btree (id)">>,
        <<>>)

OrdersTbl ==
    Tbl("sales", "orders", 7,
        <<Col("id", "integer", "NO", "nextval('orders_id_seq')"),
          Col("user_id", "integer", "NO", None)>>,
        None, <<>>,
        <<>>,
        <<[conname |-> "orders_user_fk",
           definition |-> "FOREIGN KEY (user_id) REFERENCES users(id)"]>>)

SysTbl ==
    Tbl("pg_catalog", "pg_class", 400, <<Col("relname", "name", "NO", None)>>,
        None, <<>>, <<>>, <<>>)

InfoTbl ==
    Tbl("information_schema", "tables", 0, <<Col("table_name", "name", "YES", None)>>,
        None, <<>>, <<>>, <<>>)

\* a second relation named "users", in another schema, listed first in pg_class
ArchUsersTbl ==
    Tbl("archive", "users", 9000, <<Col("id", "integer", "NO", None)>>,
        "users_pkey", <<"id">>, <<>>, <<>>)

EventsTbl ==
    Tbl("public", "events", 0, <<Col("at", "timestamp", "YES", "now()")>>,
        None, <<>>, <<>>, <<>>)

Catalog(host) ==
    IF host = "h1"
    THEN [version |-> "PostgreSQL 15.2",
          databases |->
            <<Db("template1", TRUE, <<SysTbl, UsersTbl>>),
              Db("app", FALSE, <<SysTbl, UsersTbl, InfoTbl, OrdersTbl>>),
              Db("logs", FALSE, <<SysTbl, EventsTbl>>)>>]
    ELSE [version |-> "PostgreSQL 16.1",
          databases |->
            <<Db("app", FALSE, <<ArchUsersTbl, UsersTbl>>),
              Db("template0", TRUE, <<SysTbl>>)>>]

CatalogDb(host, db) ==
    LET ds == Catalog(host).databases
    IN  ds[CHOOSE i \in 1..Len(ds) : ds[i].datname = db]

DbKeys == UNION {{<<h, d.datname>> : d \in Range(Catalog(h).databases)} : h \in Hosts}

TableKey(host, db, t) == <<host, db, t.table_schema, t.table_name>>

UserTableKeys ==
    UNION {{TableKey(k[1], k[2], t) : t \in Range(CatalogDb(k[1], k[2]).tables)} :
             k \in DbKeys}

VARIABLES
    up,            \* up[host]: the server accepts connections and answers queries
    denied,        \* tables on which a per-table introspection query raises
    ext,           \* ext[<<host, db>>]: rows of pg_extension in that database
    envChanges,    \* number of changes of the environment so far
    dirty,         \* the environment changed after the first run started
    servers,       \* generate_doc's server list (server_configs)
    parallel,      \* generate_doc's parallel flag
    run,           \* number of invocations of generate_doc started
    mainpc,        \* where generate_doc is
    tasks,         \* tasks[i]: the connect_and_fetch call for servers[i]
    finished,      \* as_completed: futures found finished when it was called
    early,         \* history: the value of finished when as_completed was called
    waiterq,       \* as_completed: the waiter's finished_futures, in order
    completed,     \* history: the tasks in the order they returned
    yielded,       \* history: the tasks in the order their results were merged
    all_metadata,  \* generate_doc's all_metadata
    fs,            \* the output directory: file name -> the chunks written
    prevJsonl      \* history: postgres_inventory.jsonl before the latest save

envVars == <<up, denied, ext, envChanges, dirty>>
cfgVars == <<servers, parallel>>
mainVars == <<run, mainpc, finished, early, all_metadata, fs, prevJsonl, yielded>>
taskVars == <<tasks, waiterq, completed>>
vars == <<envVars, cfgVars, mainVars, taskVars>>

\* ------------------------------------------------------ the catalog queries
\* mutant: the WHERE clause is missing
ListDatabasesWithTemplates(host) ==
    LET ds == Catalog(host).databases
    IN  [i \in 1..Len(ds) |-> ds[i].datname]

\* SELECT datname FROM pg_database WHERE datistemplate = false
ListDatabases(host) ==
    LET ds == SelectSeq(Catalog(host).databases, LAMBDA d : ~d.datistemplate)
    IN  [i \in 1..Len(ds) |-> ds[i].datname]

\* SELECT version()
QueryVersion(host) == Catalog(host).version

\* SELECT extname FROM pg_extension
QueryExtensions(host, db) == ext[<<host, db>>]

SystemSchemas == {"pg_catalog", "information_schema"}

\* mutant: the system schemas are not excluded
QueryTablesAllSchemas(host, db) ==
    LET ts == CatalogDb(host, db).tables
    IN  [i \in 1..Len(ts) |->
           [table_schema |-> ts[i].table_schema, table_name |-> ts[i].table_name]]

\* SELECT table_schema, table_name FROM information_schema.tables WHERE ...
QueryTables(host, db) ==
    LET ts == SelectSeq(CatalogDb(host, db).tables,
                        LAMBDA t : t.table_schema \notin SystemSchemas)
    IN  [i \in 1..Len(ts) |->
           [table_schema |-> ts[i].table_schema, table_name |-> ts[i].table_name]]

\* the catalog row of a table enumerated by QueryTables
TableRow(host, db, schema, table) ==
    LET ts == CatalogDb(host, db).tables
    IN  ts[CHOOSE i \in 1..Len(ts) :
             ts[i].table_schema = schema /\ ts[i].table_name = table]

\* SELECT reltuples::BIGINT AS estimate FROM pg_class WHERE relname = %s
\* the rows: every relation of that name, whatever its schema
QueryRowcount(host, db, table) ==
    LET rs == SelectSeq(CatalogDb(host, db).tables, LAMBDA t : t.table_name = table)
    IN  [i \in 1..Len(rs) |-> [estimate |-> rs[i].reltuples]]

\* information_schema.columns WHERE table_schema = %s AND table_name = %s
QueryColumns(host, db, schema, table) == TableRow(host, db, schema, table).columns

\* table_constraints JOIN key_column_usage ON constraint_name only
QueryPrimaryKeys(host, db, schema, table) ==
    LET pkname == TableRow(host, db, schema, table).pkname
        ts == SelectSeq(CatalogDb(host, db).tables,
                        LAMBDA t : t.pkname # None /\ t.pkname = pkname)
    IN  IF pkname = None THEN <<>> ELSE Flatten([i \in 1..Len(ts) |-> ts[i].pk])

\* SELECT indexdef FROM pg_indexes WHERE schemaname = %s AND tablename = %s
QueryIndexes(host, db, schema, table) == TableRow(host, db, schema, table).indexdefs

\* pg_constraint WHERE contype = 'f'; f"{r['conname']}: {r['definition']}"
QueryForeignKeys(host, db, schema, table) ==
    LET rows == TableRow(host, db, schema, table).fks
    IN  [i \in 1..Len(rows) |-> <<rows[i].conname, ": ", rows[i].definition>>]

\* TableMetadata(server=..., database=db, ...)
TableMetadata(server, db, schema, table, version, extensions, rowcount, primary_keys, columns, indexes, foreign_keys) ==
    [server |-> ServerName(server), database |-> db, schema |-> schema,
     table |-> table, postgres_version |-> version, extensions |-> extensions,
     rowcount |-> rowcount, primary_keys |-> primary_keys, columns |-> columns,
     indexes |-> indexes, foreign_keys |-> foreign_keys]

\* -------------------------------------------------------- connect_and_fetch
AdminConn == <<"conn", "postgres">>
DbConn(db) == <<"db_conn", db>>

NoError == <<"none">>

\* the locals of a call that has not started: metadata = []
NewTask ==
    [pc |-> "connect", open |-> {}, databases |-> <<>>, dbi |-> 0,
     tables |-> <<>>, ti |-> 0, version |-> None, extensions |-> <<>>,
     metadata |-> <<>>, err |-> NoError, raised |-> FALSE]

\* return metadata: the locals are gone, the result, the log line and the
\* connections that were not closed remain
Return(tk, error, raised) ==
    [NewTask EXCEPT !.pc = "returned", !.open = tk.open, !.metadata = tk.metadata,
                    !.err = error, !.raised = raised]

\* mutant: the handler returns an empty list instead of what was collected
HandlerDropsRecords(tk, error) ==
    Return([tk EXCEPT !.metadata = <<>>], error, FALSE)

\* except Exception as e: logging.error(...); then return metadata
Handler(tk, error) == Return(tk, error, FALSE)

\* the head of "for db in databases"; after the last database:
\* conn.close(); return metadata
DbLoop(tk) ==
    IF tk.dbi <= Len(tk.databases) THEN [tk EXCEPT !.pc = "opendb"]
    ELSE Return([tk EXCEPT !.open = @ \ {AdminConn}], NoError, FALSE)

\* the head of "for t in tables"; after the last table:
\* db_conn.close(), then the next database
TableLoop(tk) ==
    IF tk.ti <= Len(tk.tables) THEN [tk EXCEPT !.pc = "table"]
    ELSE DbLoop([tk EXCEPT !.open = @ \ {DbConn(tk.databases[tk.dbi])},
                          !.dbi = @ + 1, !.tables = <<>>, !.ti = 0])

\* conn = psycopg2.connect(..., dbname="postgres"); conn.cursor()
DoConnect(tk, server) ==
    IF up[server.host]
    THEN [tk EXCEPT !.pc = "list", !.open = @ \cup {AdminConn}]
    ELSE Handler(tk, <<"connect">>)

\* cur.execute("SELECT datname ..."); databases = [...]
DoList(tk, server) ==
    IF up[server.host]
    THEN DbLoop([tk EXCEPT !.databases = ListDatabases(server.host), !.dbi = 1])
    ELSE Handler(tk, <<"list">>)

\* db_conn = psycopg2.connect(dbname=db); version; extensions; tables
DoOpenDb(tk, server) ==
    LET db == tk.databases[tk.dbi]
    IN  IF up[server.host]
        THEN TableLoop([tk EXCEPT !.open = @ \cup {DbConn(db)},
                                  !.version = QueryVersion(server.host),
                                  !.extensions = QueryExtensions(server.host, db),
                                  !.tables = QueryTables(server.host, db),
                                  !.ti = 1])
        ELSE Handler(tk, <<"opendb", db>>)

\* mutant: the extensions are queried again for every table
DoTableRequeriesExtensions(tk, server) ==
    LET db == tk.databases[tk.dbi]
        schema == tk.tables[tk.ti].table_schema
        table == tk.tables[tk.ti].table_name
        h == server.host
        rows == QueryRowcount(h, db, table)
        item == TableMetadata(server, db, schema, table, tk.version,
                              QueryExtensions(h, db),
                              rows[1].estimate,
                              QueryPrimaryKeys(h, db, schema, table),
                              QueryColumns(h, db, schema, table),
                              QueryIndexes(h, db, schema, table),
                              QueryForeignKeys(h, db, schema, table))
    IN  IF up[h] /\ <<h, db, schema, table>> \notin denied /\ rows # <<>>
        THEN TableLoop([tk EXCEPT !.metadata = Append(@, item), !.ti = @ + 1])
        ELSE Handler(tk, <<"table", db, schema, table>>)

\* one iteration of "for t in tables": five queries, one record appended
DoTable(tk, server) ==
    LET db == tk.databases[tk.dbi]
        schema == tk.tables[tk.ti].table_schema
        table == tk.tables[tk.ti].table_name
        h == server.host
        rows == QueryRowcount(h, db, table)
        \* db_cur.fetchone()["estimate"]; fetchone() is None when no row matched
        rowcount == rows[1].estimate
        item == TableMetadata(server, db, schema, table, tk.version, tk.extensions,
                              rowcount,
                              QueryPrimaryKeys(h, db, schema, table),
                              QueryColumns(h, db, schema, table),
                              QueryIndexes(h, db, schema, table),
                              QueryForeignKeys(h, db, schema, table))
    IN  IF up[h] /\ <<h, db, schema, table>> \notin denied /\ rows # <<>>
        THEN TableLoop([tk EXCEPT !.metadata = Append(@, item), !.ti = @ + 1])
        ELSE Handler(tk, <<"table", db, schema, table>>)

\* ------------------------------------------------------------- save_results
JsonlFile == "postgres_inventory.jsonl"
MdFile == "postgres_inventory.md"

NoFiles == [n \in {} |-> <<>>]

\* mutant: open(path, "a"): an existing file keeps its content
OpenAppend(f, name) ==
    [n \in DOMAIN f \cup {name} |-> IF n \in DOMAIN f THEN f[n] ELSE <<>>]

\* open(path, "w"): the file is created or truncated
OpenWrite(f, name) ==
    [n \in DOMAIN f \cup {name} |-> IF n = name THEN <<>> ELSE f[n]]

\* f.write(chunk)
Write(f, name, chunk) == [f EXCEPT ![name] = Append(@, chunk)]

RECURSIVE WriteAll(_, _, _)
WriteAll(f, name, chunks) ==
    IF chunks = <<>> THEN f
    ELSE WriteAll(Write(f, name, Head(chunks)), name, Tail(chunks))

\* sep.join(strs), as the pieces of the resulting string
RECURSIVE Join(_, _)
Join(strs, sep) ==
    IF strs = <<>> THEN <<>>
    ELSE IF Len(strs) = 1 THEN <<strs[1]>>
    ELSE <<strs[1], sep>> \o Join(Tail(strs), sep)

\* item.model_dump_json(): the fields in declaration order
DumpJson(item) ==
    << <<"server", item.server>>, <<"database", item.database>>,
       <<"schema", item.schema>>, <<"table", item.table>>,
       <<"postgres_version", item.postgres_version>>,
       <<"extensions", item.extensions>>, <<"rowcount", item.rowcount>>,
       <<"primary_keys", item.primary_keys>>, <<"columns", item.columns>>,
       <<"indexes", item.indexes>>, <<"foreign_keys", item.foreign_keys>> >>

JsonlChunks(metadata) ==
    [i \in 1..Len(metadata) |-> <<DumpJson(metadata[i]), "\n">>]

\* col['column_default'] or ''
OrEmpty(v) == IF v = None \/ v = "" THEN "" ELSE v

ColumnRow(col) ==
    <<"| ", col.column_name, " | ", col.data_type, " | ", col.is_nullable, " | ",
      OrEmpty(col.column_default), " |\n">>

SeparatorChunk == <<"\n---\n\n">>

\* mutant: the "Indexes" heading is written whether or not there are indexes
MdSectionAlwaysIndexes(item) ==
    << <<"## ">> \o item.server \o
         <<" · ", item.database, " · ", item.schema, ".", item.table, "\n\n">>,
       <<"- PostgreSQL Version: ", item.postgres_version, "\n">>,
       <<"- Extensions: ">> \o Join(item.extensions, ", ") \o <<"\n">>,
       <<"- Rowcount: ", ToString(item.rowcount), "\n">> >>
    \o (IF item.primary_keys # <<>>
        THEN << <<"- Primary Key: ">> \o Join(item.primary_keys, ", ") \o <<"\n">> >>
        ELSE <<>>)
    \o << <<"\n### Columns\n\n">>,
          <<"| Name | Type | Nullable | Default |\n">>,
          <<"|------|------|----------|---------|\n">> >>
    \o [i \in 1..Len(item.columns) |-> ColumnRow(item.columns[i])]
    \o << <<"\n### Indexes\n">> >>
    \o [i \in 1..Len(item.indexes) |-> <<"- ", item.indexes[i], "\n">>]
    \o (IF item.foreign_keys # <<>>
        THEN << <<"\n### Foreign Keys\n">> >>
             \o [i \in 1..Len(item.foreign_keys) |->
                   <<"- ">> \o item.foreign_keys[i] \o <<"\n">>]
        ELSE <<>>)
    \o <<SeparatorChunk>>

\* the chunks written for one item, one per f.write call
MdSection(item) ==
    << <<"## ">> \o item.server \o
         <<" · ", item.database, " · ", item.schema, ".", item.table, "\n\n">>,
       <<"- PostgreSQL Version: ", item.postgres_version, "\n">>,
       <<"- Extensions: ">> \o Join(item.extensions, ", ") \o <<"\n">>,
       <<"- Rowcount: ", ToString(item.rowcount), "\n">> >>
    \o (IF item.primary_keys # <<>>
        THEN << <<"- Primary Key: ">> \o Join(item.primary_keys, ", ") \o <<"\n">> >>
        ELSE <<>>)
    \o << <<"\n### Columns\n\n">>,
          <<"| Name | Type | Nullable | Default |\n">>,
          <<"|------|------|----------|---------|\n">> >>
    \o [i \in 1..Len(item.columns) |-> ColumnRow(item.columns[i])]
    \o (IF item.indexes # <<>>
        THEN << <<"\n### Indexes\n">> >>
             \o [i \in 1..Len(item.indexes) |-> <<"- ", item.indexes[i], "\n">>]
        ELSE <<>>)
    \o (IF item.foreign_keys # <<>>
        THEN << <<"\n### Foreign Keys\n">> >>
             \o [i \in 1..Len(item.foreign_keys) |->
                   <<"- ">> \o item.foreign_keys[i] \o <<"\n">>]
        ELSE <<>>)
    \o <<SeparatorChunk>>

MdChunks(metadata) == Flatten([i \in 1..Len(metadata) |-> MdSection(metadata[i])])

\* mutant: the Markdown file is opened without truncating it
SaveResultsAppendsMd(f, metadata) ==
    LET f1 == WriteAll(OpenWrite(f, JsonlFile), JsonlFile, JsonlChunks(metadata))
    IN  WriteAll(OpenAppend(f1, MdFile), MdFile, MdChunks(metadata))

\* the JSONL file, then the Markdown file
SaveResults(f, metadata) ==
    LET f1 == WriteAll(OpenWrite(f, JsonlFile), JsonlFile, JsonlChunks(metadata))
    IN  WriteAll(OpenWrite(f1, MdFile), MdFile, MdChunks(metadata))

\* ------------------------------------------------------------- generate_doc
\* mutant: all_metadata = result
ExtendReplaces(all, result) == result

\* mutant: the result is put in front
ExtendPrepends(all, result) == result \o all

\* all_metadata.extend(result)
Extend(all, result) == all \o result

ScannedHosts == {servers[i].host : i \in 1..Len(servers)}

Init ==
    /\ up = [h \in Hosts |-> TRUE]
    /\ denied = {}
    /\ ext = [k \in DbKeys |-> <<"plpgsql">>]
    /\ envChanges = 0
    /\ dirty = FALSE
    /\ servers \in SeqsUpTo(ServerConfigs, MaxServers)
    /\ parallel \in BOOLEAN
    /\ run = 0
    /\ mainpc = "idle"
    /\ tasks = <<>>
    /\ finished = {}
    /\ early = {}
    /\ waiterq = <<>>
    /\ completed = <<>>
    /\ yielded = <<>>
    /\ all_metadata = <<>>
    /\ fs = NoFiles
    /\ prevJsonl = <<>>

\* ---- the environment
EnvMayChange ==
    /\ envChanges < MaxEnvChanges
    /\ mainpc \notin {"saved", "crashed"} \/ run < MaxRuns

EnvChanged ==
    /\ envChanges' = envChanges + 1
    /\ dirty' = (dirty \/ run >= 1)
    /\ UNCHANGED <<cfgVars, mainVars, taskVars>>

ServerDown(h) ==
    /\ EnvMayChange
    /\ h \in ScannedHosts
    /\ up[h]
    /\ up' = [up EXCEPT ![h] = FALSE]
    /\ UNCHANGED <<denied, ext>>
    /\ EnvChanged

Revoke(k) ==
    /\ EnvMayChange
    /\ k[1] \in ScannedHosts
    /\ k \notin denied
    /\ denied' = denied \cup {k}
    /\ UNCHANGED <<up, ext>>
    /\ EnvChanged

InstallExtension(k) ==
    /\ EnvMayChange
    /\ k[1] \in ScannedHosts
    /\ k[2] \in Range(ListDatabases(k[1]))
    /\ "pgcrypto" \notin Range(ext[k])
    /\ ext' = [ext EXCEPT ![k] = Append(@, "pgcrypto")]
    /\ UNCHANGED <<up, denied>>
    /\ EnvChanged

\* ---- generate_doc(servers, output_dir, parallel)
Invoke ==
    /\ mainpc = "idle" \/ (mainpc = "saved" /\ run < MaxRuns)
    /\ run' = run + 1
    /\ tasks' = [i \in 1..Len(servers) |-> NewTask]
    /\ all_metadata' = <<>>
    /\ finished' = {}
    /\ early' = {}
    /\ waiterq' = <<>>
    /\ completed' = <<>>
    /\ yielded' = <<>>
    /\ mainpc' = IF parallel THEN "submitted" ELSE "sequential"
    /\ UNCHANGED <<envVars, cfgVars, fs, prevJsonl>>

\* as_completed(futures): the futures already finished at the call are taken
\* from a set and yielded first, in no particular order; the others are
\* yielded in the order they finish
AsCompleted ==
    /\ mainpc = "submitted"
    /\ finished' = {i \in 1..Len(tasks) : tasks[i].pc = "returned"}
    /\ early' = finished'
    /\ mainpc' = "as_completed"
    /\ UNCHANGED <<envVars, cfgVars, taskVars, run, all_metadata, fs, prevJsonl, yielded>>

\* In parallel mode every submitted call may run: the pool's default size,
\* min(32, cpu_count + 4), is above the number of servers considered here.
\* In sequential mode the call for server i runs when those before it are merged.
CanRun(i) ==
    \/ mainpc \in {"submitted", "as_completed"}
    \/ mainpc = "sequential" /\ i = Len(yielded) + 1

TaskStep(i, tk) ==
    /\ tasks' = [tasks EXCEPT ![i] = tk]
    /\ IF tk.pc = "returned"
       THEN /\ completed' = Append(completed, i)
            /\ waiterq' = IF mainpc = "as_completed" THEN Append(waiterq, i)
                                                      ELSE waiterq
       ELSE UNCHANGED <<completed, waiterq>>
    /\ UNCHANGED <<envVars, cfgVars, mainVars>>

Connect(i) ==
    /\ CanRun(i) /\ tasks[i].pc = "connect"
    /\ TaskStep(i, DoConnect(tasks[i], servers[i]))

List(i) ==
    /\ CanRun(i) /\ tasks[i].pc = "list"
    /\ TaskStep(i, DoList(tasks[i], servers[i]))

OpenDb(i) ==
    /\ CanRun(i) /\ tasks[i].pc = "opendb"
    /\ TaskStep(i, DoOpenDb(tasks[i], servers[i]))

FetchTable(i) ==
    /\ CanRun(i) /\ tasks[i].pc = "table"
    /\ TaskStep(i, DoTable(tasks[i], servers[i]))

\* future.result() or the direct call: the result, or the exception re-raised
Merge(i) ==
    /\ yielded' = Append(yielded, i)
    /\ IF tasks[i].raised
       THEN mainpc' = "crashed" /\ UNCHANGED all_metadata
       ELSE all_metadata' = Extend(all_metadata, tasks[i].metadata)
            /\ UNCHANGED mainpc
    /\ UNCHANGED <<envVars, cfgVars, tasks, completed, run, early, fs, prevJsonl>>

\* for future in as_completed(futures): all_metadata.extend(future.result())
MergeParallel ==
    /\ mainpc = "as_completed"
    /\ \/ \E i \in finished :
            /\ finished' = finished \ {i}
            /\ UNCHANGED waiterq
            /\ Merge(i)
       \/ /\ finished = {}
          /\ waiterq # <<>>
          /\ waiterq' = Tail(waiterq)
          /\ UNCHANGED finished
          /\ Merge(Head(waiterq))

\* for s in server_configs: all_metadata.extend(connect_and_fetch(s))
MergeSequential ==
    /\ mainpc = "sequential"
    /\ Len(yielded) < Len(servers)
    /\ tasks[Len(yielded) + 1].pc = "returned"
    /\ UNCHANGED <<finished, waiterq>>
    /\ Merge(Len(yielded) + 1)

\* save_results(output_dir, all_metadata)
Save ==
    /\ mainpc \in {"as_completed", "sequential"}
    /\ Len(yielded) = Len(servers)
    /\ prevJsonl' = IF JsonlFile \in DOMAIN fs THEN fs[JsonlFile] ELSE <<>>
    /\ fs' = SaveResults(fs, all_metadata)
    /\ mainpc' = "saved"
    /\ UNCHANGED <<envVars, cfgVars, taskVars, run, finished, early, all_metadata, yielded>>

ScannedTableKeys ==
    {k \in UserTableKeys :
        /\ k[2] \in Range(ListDatabases(k[1]))
        /\ k[3] \notin SystemSchemas}

Next ==
    \/ \E h \in Hosts : ServerDown(h)
    \/ \E k \in ScannedTableKeys : Revoke(k)
    \/ \E k \in DbKeys : InstallExtension(k)
    \/ Invoke
    \/ AsCompleted
    \/ \E i \in 1..Len(tasks) : Connect(i)
    \/ \E i \in 1..Len(tasks) : List(i)
    \/ \E i \in 1..Len(tasks) : OpenDb(i)
    \/ \E i \in 1..Len(tasks) : FetchTable(i)
    \/ MergeParallel
    \/ MergeSequential
    \/ Save

Spec == Init /\ [][Next]_vars

TypeOK ==
    /\ mainpc \in {"idle", "submitted", "as_completed", "sequential", "saved", "crashed"}
    /\ run \in 0..MaxRuns

\* ------------------------------------------------------ notions of the claims
TaskIds == 1..Len(tasks)

Returned(i) == tasks[i].pc = "returned"

Failed(i) == Returned(i) /\ tasks[i].err # NoError

KeyOf(host, item) == <<host, item.database, item.schema, item.table>>

KeySeq(host, metadata) == [k \in 1..Len(metadata) |-> KeyOf(host, metadata[k])]

\* the (database, schema, table) triples a scan of the host enumerates:
\* the tables outside the system schemas of the databases that are no templates
EnumeratedKeys(host) ==
    {k \in UserTableKeys :
        /\ k[1] = host
        /\ ~CatalogDb(host, k[2]).datistemplate
        /\ k[3] # "pg_catalog" /\ k[3] # "information_schema"}

\* position of a database in pg_database, of a table in its database
DbPos(host, db) ==
    CHOOSE n \in 1..Len(Catalog(host).databases) :
        Catalog(host).databases[n].datname = db

TablePos(k) ==
    LET ts == CatalogDb(k[1], k[2]).tables
    IN  CHOOSE n \in 1..Len(ts) :
            ts[n].table_schema = k[3] /\ ts[n].table_name = k[4]

\* k1 is enumerated before k2 (same host)
Before(k1, k2) ==
    \/ DbPos(k1[1], k1[2]) < DbPos(k2[1], k2[2])
    \/ k1[2] = k2[2] /\ TablePos(k1) < TablePos(k2)

\* ------------------------------------------------------------------- C1
\* C1: when connect_and_fetch has returned, normally or through the caught
\* exception, no connection opened by that scan (administrative or
\* per-database) is still open.
C1_ClosesEveryConnection ==
    \A i \in TaskIds : Returned(i) => tasks[i].open = {}

\* ------------------------------------------------------------------- C2
\* C2: a scan step that raises does not propagate the exception: the call
\* returns, the failure is logged, and the value returned is exactly the
\* sequence of records that had been assembled before the failing step;
\* generate_doc never sees an exception from a scan.
C2_ReturnsCollected ==
    [][ /\ mainpc' # "crashed"
        /\ \A i \in TaskIds :
              (/\ i <= Len(tasks')
               /\ ~Returned(i)
               /\ tasks'[i].pc = "returned"
               /\ tasks'[i].err # NoError)
              => /\ tasks'[i].metadata = tasks[i].metadata
                 /\ ~tasks'[i].raised ]_vars

C2_Witness ==
    \E i \in TaskIds : Failed(i) /\ tasks[i].metadata # <<>> /\ mainpc = "saved"

\* ------------------------------------------------------------------- C3
\* C3: in parallel mode the run is never ended by an exception of a scan and
\* is never stuck before save_results (every scan that has returned and is not
\* merged yet is waiting to be taken by the as_completed loop), and when
\* save_results has been reached the collection holds no record of a
\* server whose administrative connection failed and every record returned
\* by the scans of the other servers, whatever the interleaving.
C3_ParallelIsolation ==
    parallel =>
        /\ mainpc # "crashed"
        /\ mainpc = "as_completed" =>
             {i \in TaskIds : Returned(i)} \ Range(yielded) = finished \cup Range(waiterq)
        /\ mainpc = "saved" =>
             /\ \A i \in TaskIds : Returned(i) /\ i \in Range(yielded)
             /\ \A i \in TaskIds :
                   tasks[i].err = <<"connect">> => tasks[i].metadata = <<>>
             /\ SameBag(all_metadata,
                        Flatten([i \in TaskIds |->
                                   IF tasks[i].err = <<"connect">> THEN <<>>
                                   ELSE tasks[i].metadata]))

C3_Witness ==
    /\ parallel /\ mainpc = "saved"
    /\ \E i, j \in TaskIds :
          /\ tasks[i].err = <<"connect">>
          /\ tasks[j].err = NoError /\ tasks[j].metadata # <<>>
          /\ i < j

\* ------------------------------------------------------------------- C4
\* C4 as claimed: when a per-table query fails for one table of a database
\* (the server itself still answering), the scan still returns the records of
\* the tables of every database enumerated after that one.
C4_TableFailureIsolated ==
    \A i \in TaskIds :
        (Failed(i) /\ tasks[i].err[1] = "table" /\ up[servers[i].host]) =>
            LET h == servers[i].host
                bad == <<h, tasks[i].err[2], tasks[i].err[3], tasks[i].err[4]>>
            IN  \A k \in EnumeratedKeys(h) :
                    DbPos(h, bad[2]) < DbPos(h, k[2])
                    => k \in Range(KeySeq(h, tasks[i].metadata))

\* C4 as amended: a failing per-table query ends the scan of that server: the
\* scan returns one record for each table enumerated before the failing one
\* and none for the failing table, later tables or later databases.  The
\* failure is isolated per server: a scan fails only for a cause on its own
\* server.
C4_FailureEndsServerScan ==
    \A i \in TaskIds :
        LET h == servers[i].host
        IN  /\ (Failed(i) /\ tasks[i].err[1] = "table") =>
                  LET bad == <<h, tasks[i].err[2], tasks[i].err[3], tasks[i].err[4]>>
                      keys == KeySeq(h, tasks[i].metadata)
                  IN  /\ Range(keys) = {k \in EnumeratedKeys(h) : Before(k, bad)}
                      /\ Cardinality(Range(keys)) = Len(keys)
            /\ Failed(i) => (~up[h] \/ \E k \in denied : k[1] = h)

C4_Witness ==
    \E i \in TaskIds :
        /\ Failed(i) /\ tasks[i].err = <<"table", "app", "sales", "orders">>
        /\ up[servers[i].host]
        /\ Len(tasks[i].metadata) = 1
        /\ \E j \in TaskIds : servers[j] # servers[i] /\ Returned(j) /\ ~Failed(j)
                               /\ tasks[j].metadata # <<>>

\* ------------------------------------------------------------------- C5
SecondRunSaved == run >= 2 /\ mainpc = "saved" /\ ~dirty

\* C5 as claimed: with the servers' state unchanged since the first run
\* started, a further run with the same server list and parallel flag writes
\* the same JSONL file, line for line, also in parallel mode with several
\* servers.
C5_RunsIdentical ==
    SecondRunSaved => fs[JsonlFile] = prevJsonl

\* C5 as amended: under the same condition the two files are equal line for
\* line when parallel is false or at most one scan returned records; when
\* parallel is true they hold the same lines, each the same number of times,
\* but the per-server blocks may come in another order.
C5_RunsIdenticalUpToBlockOrder ==
    SecondRunSaved =>
        /\ SameBag(fs[JsonlFile], prevJsonl)
        /\ (\/ ~parallel
            \/ Cardinality({i \in TaskIds : tasks[i].metadata # <<>>}) <= 1)
           => fs[JsonlFile] = prevJsonl

C5_Witness ==
    /\ SecondRunSaved /\ ~parallel /\ Len(servers) = 2 /\ servers[1] # servers[2]
    /\ \A i \in TaskIds : tasks[i].metadata # <<>>
    /\ \E i \in TaskIds : Failed(i)

\* ------------------------------------------------------------------- C6
Results(order) == Flatten([k \in 1..Len(order) |-> tasks[order[k]].metadata])

InputOrder == [k \in TaskIds |-> k]

\* C6 as claimed: the merged collection is the concatenation of the whole
\* per-server results, in input order when parallel is false and in task
\* completion order when parallel is true.
C6_MergeInCompletionOrder ==
    mainpc = "saved" =>
        all_metadata = Results(IF parallel THEN completed ELSE InputOrder)

Pos(order, i) == CHOOSE n \in 1..Len(order) : order[n] = i

\* C6 as amended: the merged collection is the concatenation of the whole
\* per-server results, none dropped, deduplicated or interleaved, in the order
\* the results were taken: input order when parallel is false; when parallel
\* is true, first the tasks that had already finished when as_completed was
\* called, in no particular order, then the others in completion order.
C6_MergeInYieldOrder ==
    /\ mainpc # "crashed" => all_metadata = Results(yielded)
    /\ Cardinality(Range(yielded)) = Len(yielded)
    /\ mainpc = "saved" =>
         /\ Range(yielded) = TaskIds
         /\ ~parallel => yielded = InputOrder
         /\ parallel =>
              \A i, j \in TaskIds :
                 /\ (i \in early /\ j \notin early) => Pos(yielded, i) < Pos(yielded, j)
                 /\ (i \notin early /\ j \notin early
                       /\ Pos(completed, i) < Pos(completed, j))
                    => Pos(yielded, i) < Pos(yielded, j)

C6_Witness ==
    /\ mainpc = "saved" /\ parallel /\ Len(servers) = 2
    /\ early = {1, 2}
    /\ completed = <<2, 1>>
    /\ yielded = <<1, 2>>
    /\ \A i \in TaskIds : tasks[i].metadata # <<>>
    /\ servers[1] # servers[2]

\* ------------------------------------------------------------------- C7
\* C7: a scan that returns without an exception returns exactly one record for
\* each (database, schema, table) triple of the server outside the template
\* databases and the system schemas: none missing, none twice, no other.
C7_OneRecordPerTable ==
    \A i \in TaskIds :
        (Returned(i) /\ ~Failed(i)) =>
            LET keys == KeySeq(servers[i].host, tasks[i].metadata)
            IN  /\ Range(keys) = EnumeratedKeys(servers[i].host)
                /\ Cardinality(Range(keys)) = Len(keys)

C7_Witness ==
    \E i \in TaskIds :
        Returned(i) /\ ~Failed(i) /\ Len(tasks[i].metadata) = 3 /\ mainpc = "saved"

\* ------------------------------------------------------------------- C8
SameDbFacts(metadata) ==
    \A a, b \in Range(metadata) :
        (a.server = b.server /\ a.database = b.database) =>
            /\ a.postgres_version = b.postgres_version
            /\ a.extensions = b.extensions

\* C8 as claimed: in the collection handed to save_results any two records
\* with the same server and database have the same postgres_version and
\* extensions, also when a server is listed more than once.
C8_SameFactsInCollection ==
    mainpc = "saved" => SameDbFacts(all_metadata)

\* C8 as amended: any two records returned by the same scan with the same
\* database have the same postgres_version and extensions; in the collection
\* handed to save_results this holds across the scans of a server listed
\* more than once provided the servers' state did not change during the runs.
C8_SameFactsPerScan ==
    /\ \A i \in TaskIds : SameDbFacts(tasks[i].metadata)
    /\ (mainpc = "saved" /\ ~dirty) => SameDbFacts(all_metadata)

C8_Witness ==
    /\ mainpc = "saved" /\ ~dirty /\ Len(servers) = 2 /\ servers[1] = servers[2]
    /\ \E h \in Hosts : "pgcrypto" \in Range(ext[<<h, "app">>])
    /\ \E m, n \in 1..Len(all_metadata) :
          /\ m < n
          /\ all_metadata[m].server = all_metadata[n].server
          /\ all_metadata[m].database = all_metadata[n].database
          /\ all_metadata[m].table # all_metadata[n].table
          /\ "pgcrypto" \in Range(all_metadata[m].extensions)

\* ------------------------------------------------------------------- C9
\* C9: after save_results has run on a directory that holds the files of an
\* earlier run, both files hold exactly what one call with the same
\* collection on an empty directory writes; nothing of the earlier files
\* remains.
C9_FullOverwrite ==
    (run >= 2 /\ mainpc = "saved") =>
        /\ DOMAIN fs = {JsonlFile, MdFile}
        /\ fs = SaveResults(NoFiles, all_metadata)
        /\ Len(fs[JsonlFile]) = Len(all_metadata)

C9_Witness ==
    /\ run >= 2 /\ mainpc = "saved"
    /\ Len(prevJsonl) > Len(fs[JsonlFile])
    /\ Len(fs[JsonlFile]) > 0

\* ------------------------------------------------------------------ C10
\* the chunks of a Markdown file cut into sections after each separator
RECURSIVE Sections(_, _)
Sections(chunks, cur) ==
    IF chunks = <<>> THEN (IF cur = <<>> THEN <<>> ELSE <<cur>>)
    ELSE IF Head(chunks) = SeparatorChunk
         THEN <<Append(cur, Head(chunks))>> \o Sections(Tail(chunks), <<>>)
         ELSE Sections(Tail(chunks), Append(cur, Head(chunks)))

\* the number of chunks of a section that start with the given text
Starts(sec, text) == Cardinality({n \in 1..Len(sec) : sec[n][1] = text})

B2N(b) == IF b THEN 1 ELSE 0

\* C10: the Markdown file holds one section per record, in the order of the
\* records; each section starts with the header of its record, has the
\* version, extensions and rowcount lines and the columns table with one row
\* per column, has the "Primary Key" line iff primary_keys is non-empty, the
\* "Indexes" section iff indexes is non-empty, the "Foreign Keys" section iff
\* foreign_keys is non-empty, and ends with the separator.
C10_MarkdownSections ==
    mainpc = "saved" =>
        LET secs == Sections(fs[MdFile], <<>>)
        IN  /\ Len(secs) = Len(all_metadata)
            /\ \A n \in 1..Len(secs) :
                  LET sec == secs[n]
                      item == all_metadata[n]
                  IN  /\ sec[1] = <<"## ">> \o item.server \o
                                     <<" · ", item.database, " · ", item.schema, ".",
                                       item.table, "\n\n">>
                      /\ sec[2] = <<"- PostgreSQL Version: ", item.postgres_version, "\n">>
                      /\ sec[3][1] = "- Extensions: "
                      /\ sec[4] = <<"- Rowcount: ", ToString(item.rowcount), "\n">>
                      /\ Starts(sec, "- Primary Key: ") = B2N(item.primary_keys # <<>>)
                      /\ Starts(sec, "\n### Columns\n\n") = 1
                      /\ Starts(sec, "| Name | Type | Nullable | Default |\n") = 1
                      /\ Starts(sec, "| ") = Len(item.columns)
                      /\ Starts(sec, "\n### Indexes\n") = B2N(item.indexes # <<>>)
                      /\ Starts(sec, "\n### Foreign Keys\n") = B2N(item.foreign_keys # <<>>)
                      /\ Starts(sec, "- ") = Len(item.indexes) + Len(item.foreign_keys)
                      /\ sec[Len(sec)] = SeparatorChunk
                      /\ Starts(sec, SeparatorChunk[1]) = 1

C10_Witness ==
    /\ mainpc = "saved"
    /\ \E m, n, q \in 1..Len(all_metadata) :
          /\ all_metadata[m].primary_keys # <<>> /\ all_metadata[m].indexes # <<>>
          /\ all_metadata[m].foreign_keys = <<>>
          /\ all_metadata[n].primary_keys = <<>> /\ all_metadata[n].foreign_keys # <<>>
          /\ all_metadata[q].primary_keys = <<>> /\ all_metadata[q].indexes = <<>>
          /\ all_metadata[q].foreign_keys = <<>>
====
